---- MODULE Spec2Model ----
(***************************************************************************)
(* A model of the AfriLance escrow front end (src/src/app.tsx): the React  *)
(* state of the App component, the gating flags computed on every render,  *)
(* the button conditions of the JSX, the asynchronous action handlers      *)
(* (approveSpending .. finalizeUmaDispute, createNewEscrow) with their     *)
(* suspension points, withPending, ensureCurrentChain and                  *)
(* refreshRoleAndState.  The chain, the wallet and the clock are the       *)
(* environment.                                                            *)
(***************************************************************************)
EXTENDS Integers, Sequences, FiniteSets, TLC

(* ------------------------------------------------------------------ *)
(* Bounds of the model                                                 *)
(* ------------------------------------------------------------------ *)
\* the clock runs over 0 .. MaxNow (seconds)
MaxNow == 2
\* handler invocations and refreshes in flight at once in Spec and SpecLive
OneTask == 1
\* handler invocations and refreshes in flight at once in SpecFlight
MaxTasks == 2
\* scheduled releases of pendingAction outstanding at once
MaxTimers == 2

(* ------------------------------------------------------------------ *)
(* Program constants                                                   *)
(* ------------------------------------------------------------------ *)
BscTestnetId == 97
BaseSepoliaId == 84532
\* a chain the application does not support (Ethereum mainnet)
OtherChainId == 1
\* useState<string>("unknown")
UnknownChain == 0
\* 2n * 24n * 60n * 60n
DefaultGrace == 172800
DefaultMaxRevisions == 2
\* proposeUmaResolution: umaEvidence.trim().length < 8 is refused
MinEvidenceLen == 8
BaseDecimals == 6
\* escrowTokenDecimals ?? 6
DefaultInputDecimals == 6
FallbackDecimals == 18

ZeroAddress == "0"
ZeroAssertion == "0x00"
NoAddress == "undefined"
NoEscrow == "undefined"
NoState == -1
NoAction == "null"
NoDecimals == -1

SupportedChains == {BscTestnetId, BaseSepoliaId}
WalletChains == {BscTestnetId, BaseSepoliaId, OtherChainId}

\* wallet accounts: as the wallet reports them (any letter case)
Accounts == {"c", "F", "O", "u"}
Escrows == {"E1"}

Roles == {"client", "freelancer", "oracle", "unknown", "unset"}

\* the pendingAction union type
ActionKinds ==
  {"approve", "deposit", "payFee", "submitProof", "approveJob", "raiseDispute",
   "requestRevision", "startJob", "refund", "createEscrow", "proposeResolution",
   "finalizeDispute"}

\* lower(x) = (x || "").toLowerCase()
lower(x) ==
  CASE x = "C" -> "c"
    [] x = "F" -> "f"
    [] x = "O" -> "o"
    [] x = "USDC97" -> "usdc97"
    [] x = NoAddress -> ""
    [] OTHER -> x

(* ------------------------------------------------------------------ *)
(* Strings typed by the user (evidence link): sequences of characters  *)
(* ------------------------------------------------------------------ *)
RECURSIVE TrimLeft(_)
TrimLeft(s) == IF s # <<>> /\ Head(s) = " " THEN TrimLeft(Tail(s)) ELSE s

RECURSIVE TrimRight(_)
TrimRight(s) ==
  IF s # <<>> /\ s[Len(s)] = " " THEN TrimRight(SubSeq(s, 1, Len(s) - 1)) ELSE s

\* String.prototype.trim
trim(s) == TrimRight(TrimLeft(s))

Link8 == <<"h", "t", "t", "p", ":", "/", "/", "x">>
EvidenceInputs ==
  { <<>>, <<" ", " ">>, <<" ">> \o Link8 \o <<" ">>,
    <<" ">> \o SubSeq(Link8, 1, 7) \o <<" ">> }

(* ------------------------------------------------------------------ *)
(* The state                                                           *)
(* ------------------------------------------------------------------ *)
VARIABLES
  \* --- environment ---
  nowT,            \* the wall clock, Date.now() / 1000
  walletChain,     \* the network the wallet is on
  walletAccount,   \* the account the wallet exposes
  chainSnap,       \* the escrow contract's storage, as the RPC node reports it
  \* --- React state of App ---
  address, provider, chainId, currentChain, escrow,
  role, escrowClient, escrowFreelancer, escrowOracle, escrowToken, escrowState,
  depositAmount, escrowTokenDecimals,
  depositDeadline, startDeadline, completionDeadline,
  revisions, MAX_REVISIONS, DISPUTE_GRACE, disputeStart, FEE,
  disputeAssertionId, disputeAssertionExpiration,
  umaEvidence, pendingAction, status,
  escrowBnbBalance, tokenApprovedOnce, tokenAllowance, accruedFees,
  amount, settlement,
  \* --- render ---
  renderNow,       \* now() as read by the last render
  canProposeNow,   \* the memoised value (useMemo on [graceEndsAt])
  \* --- asynchronous work ---
  tasks,           \* handler invocations and refreshes between two awaits
  timers           \* scheduled setTimeout(() => setPendingAction(null), 1500)

envVars == <<nowT, walletChain, walletAccount, chainSnap>>
walletVars == <<address, provider, chainId, currentChain>>
partyVars == <<escrowClient, escrowFreelancer, escrowOracle, escrowToken>>
phaseVars == <<escrowState, depositAmount, FEE, accruedFees>>
deadlineVars == <<depositDeadline, startDeadline, completionDeadline>>
disputeVars ==
  <<revisions, MAX_REVISIONS, DISPUTE_GRACE, disputeStart,
    disputeAssertionId, disputeAssertionExpiration>>
extraVars ==
  <<escrowTokenDecimals, escrowBnbBalance, tokenApprovedOnce, tokenAllowance>>
formVars == <<umaEvidence, amount, settlement>>
snapVars == <<partyVars, phaseVars, deadlineVars, disputeVars, extraVars>>

vars ==
  <<envVars, walletVars, escrow, role, snapVars, formVars, pendingAction,
    status, renderNow, canProposeNow, tasks, timers>>

(* ------------------------------------------------------------------ *)
(* Token quantities: m * 10^e in the token's smallest unit             *)
(* ------------------------------------------------------------------ *)
Qty(m, e) == [m |-> m, e |-> e]
QtyIsZero(q) == q.m = 0
ZeroQty == Qty(0, 0)
\* a >= b for quantities with a one-digit mantissa
QtyGeq(a, b) ==
  \/ QtyIsZero(b)
  \/ ~QtyIsZero(a) /\ (a.e > b.e \/ (a.e = b.e /\ a.m >= b.m))

AmountInputs == {"0", "1"}

\* what a user can type into the amount field: any text
TypedAmounts == AmountInputs \cup {"1,5"}

\* viem's parseUnits accepts /^(-?)([0-9]*)\.?([0-9]*)$/ and throws
\* InvalidDecimalNumberError on any other text
isDecimalText(a) == a \in {"", "0", "1"}
InvalidDecimalNumber == Qty(-1, -1)

\* parseUnits(amount || "0", dec)
parseUnits(a, dec) ==
  CASE a = "1" -> Qty(1, dec)
    [] ~isDecimalText(a) -> InvalidDecimalNumber
    [] OTHER -> Qty(0, dec)

(* ------------------------------------------------------------------ *)
(* Settlement tokens (lines 51-75, 304-314, 364-371)                   *)
(* ------------------------------------------------------------------ *)
Symbols == {"USDT", "USDC"}
NoSymbol == "null"

\* CHAIN_CONFIG[c].usdt / .usdc
cfgToken(c, sym) ==
  CASE c = BscTestnetId /\ sym = "USDT" -> "usdt97"
    [] c = BscTestnetId /\ sym = "USDC" -> "usdc97"
    [] c = BaseSepoliaId /\ sym = "USDT" -> "usdt84532"
    [] OTHER -> "usdc84532"

tokenSymbol(tok, c) ==
  IF tok = NoAddress THEN NoSymbol
  ELSE IF lower(tok) = lower(cfgToken(c, "USDT")) THEN "USDT"
  ELSE IF lower(tok) = lower(cfgToken(c, "USDC")) THEN "USDC"
  ELSE NoSymbol

escrowTokenSymbol == tokenSymbol(escrowToken, currentChain)

\* the effect on [escrowTokenSymbol]: a symbol that changed and is not null
\* becomes the selected settlement token
AutoLock ==
  settlement' =
    IF escrowTokenSymbol' # NoSymbol /\ escrowTokenSymbol' # escrowTokenSymbol
    THEN escrowTokenSymbol'
    ELSE settlement

(* ------------------------------------------------------------------ *)
(* Values computed on every render (lines 659-731, 1637, 1672-1685)    *)
(* ------------------------------------------------------------------ *)
isEscrowFinished == escrowState = 3 \/ escrowState = 6

clientHasDeposit == depositAmount > 0
clientPaidFee == accruedFees >= FEE /\ FEE > 0

isDepositDeadlineExceeded ==
  escrowState = 0 /\ depositDeadline > 0 /\ renderNow > depositDeadline

isStartDeadlineExceeded ==
  /\ escrowState = 0
  /\ startDeadline > 0
  /\ renderNow > startDeadline
  /\ clientHasDeposit
  /\ clientPaidFee

\* escrowTokenDecimals ?? 6
inputDec ==
  IF escrowTokenDecimals = NoDecimals THEN DefaultInputDecimals
  ELSE escrowTokenDecimals

desiredAmount == parseUnits(amount, inputDec)

isApprovedEnough ==
  QtyGeq(tokenAllowance, desiredAmount) /\ ~QtyIsZero(desiredAmount)

canClientApproveToken ==
  escrowState = 0 /\ ~isApprovedEnough /\ ~isDepositDeadlineExceeded

canClientDeposit ==
  /\ escrowState = 0
  /\ isApprovedEnough
  /\ ~clientHasDeposit
  /\ ~isDepositDeadlineExceeded

\* a refund gate that opens at the start deadline instead of after it
canRefundNoStartEarly ==
  /\ escrowState = 0
  /\ startDeadline > 0
  /\ renderNow >= startDeadline
  /\ clientHasDeposit
  /\ clientPaidFee

canRefundNoStart == isStartDeadlineExceeded

\* a gate that forgets that Approved ends the escrow
canClientApproveLate == escrowState = 2 \/ escrowState = 3

canClientApprove == escrowState = 2
canClientRevise == escrowState = 2
\* a dispute gate that is also open while the work is in progress
canRaiseDisputeStarted == escrowState = 1 \/ escrowState = 2 \/ escrowState = 4

canRaiseDispute == escrowState = 2 \/ escrowState = 4

\* a start gate that closes one second before the deadline
canFreelancerStartBefore ==
  /\ escrowState = 0
  /\ renderNow < startDeadline
  /\ clientHasDeposit
  /\ clientPaidFee

\* a start gate without the deadline
canFreelancerStartLate == escrowState = 0 /\ clientHasDeposit /\ clientPaidFee

canFreelancerStart ==
  /\ escrowState = 0
  /\ renderNow <= startDeadline
  /\ clientHasDeposit
  /\ clientPaidFee

\* a submit gate without the deadline
canFreelancerSubmitLate == escrowState = 1 \/ escrowState = 4

canFreelancerSubmit ==
  (escrowState = 1 \/ escrowState = 4) /\ renderNow <= completionDeadline

canOracleSettle ==
  escrowState = 5 /\ renderNow >= disputeStart + DISPUTE_GRACE

\* a panel shown to everyone but the freelancer
showClientLoose == role # "freelancer"

showClient == role = "client"
showFreelancer == role = "freelancer"

clientHasActions ==
  /\ showClient
  /\ ~isDepositDeadlineExceeded
  /\ \/ (escrowState = 0 /\ (~tokenApprovedOnce \/ ~clientHasDeposit \/ ~clientPaidFee))
     \/ escrowState = 2
     \/ canRefundNoStart

freelancerHasActions ==
  /\ showFreelancer
  /\ ~isDepositDeadlineExceeded
  /\ \/ (escrowState = 0 /\ clientHasDeposit /\ clientPaidFee)
     \/ escrowState = 1
     \/ escrowState = 4
     \/ escrowState = 2

isBaseSepolia == currentChain = BaseSepoliaId

\* a comparison against the wrong constant
emptyAssertionLoose == disputeAssertionId # "0x"

emptyAssertion == disputeAssertionId = ZeroAssertion

GraceEndsAt(dStart, dGrace) ==
  IF dStart = 0 \/ dGrace = 0 THEN 0 ELSE dStart + dGrace

graceEndsAt == GraceEndsAt(disputeStart, DISPUTE_GRACE)

\* the body of the canProposeNow memo, evaluated at time t
CanProposeAt(ends, t) == IF ends = 0 THEN FALSE ELSE t >= ends

\* the expiry test one second early
notExpiredYetEarly(t) ==
  disputeAssertionExpiration > 0 /\ t + 1 < disputeAssertionExpiration

\* what the Finalize button and finalizeUmaDispute both test
notExpiredYet(t) ==
  disputeAssertionExpiration > 0 /\ t < disputeAssertionExpiration

(* ------------------------------------------------------------------ *)
(* The buttons of the JSX: rendered and not disabled                   *)
(* ------------------------------------------------------------------ *)
umaPanelShown == escrow # NoEscrow /\ escrowState = 5 /\ currentChain = BaseSepoliaId

\* everything but the Connect button is rendered only while address is set
\* (line 2097)
ButtonEnabled(kind) ==
  /\ address # NoAddress
  /\ CASE kind = "approve" ->
            clientHasActions /\ escrowState = 0 /\ ~tokenApprovedOnce /\ pendingAction = NoAction
       [] kind = "deposit" ->
            /\ clientHasActions /\ escrowState = 0 /\ tokenApprovedOnce
            /\ ~clientHasDeposit /\ pendingAction = NoAction
       [] kind = "payFee" ->
            /\ clientHasActions /\ escrowState = 0 /\ clientHasDeposit
            /\ ~clientPaidFee /\ pendingAction = NoAction
       [] kind = "refund" ->
            clientHasActions /\ canRefundNoStart /\ pendingAction = NoAction
       [] kind = "requestRevision" ->
            clientHasActions /\ escrowState = 2 /\ pendingAction = NoAction
       [] kind = "approveJob" ->
            clientHasActions /\ escrowState = 2 /\ pendingAction = NoAction
       [] kind = "raiseDispute" ->
            /\ pendingAction = NoAction
            /\ \/ (clientHasActions /\ escrowState = 2)
               \/ (freelancerHasActions /\ (escrowState = 2 \/ escrowState = 4))
       [] kind = "startJob" ->
            /\ freelancerHasActions /\ escrowState = 0 /\ clientHasDeposit
            /\ clientPaidFee /\ pendingAction = NoAction
       [] kind = "submitProof" ->
            /\ freelancerHasActions /\ (escrowState = 1 \/ escrowState = 4)
            /\ pendingAction = NoAction
       [] kind = "proposeResolution" ->
            /\ umaPanelShown /\ emptyAssertion
            /\ pendingAction = NoAction /\ canProposeNow /\ trim(umaEvidence) # <<>>
       [] kind = "finalizeDispute" ->
            /\ umaPanelShown /\ ~emptyAssertion
            /\ pendingAction = NoAction /\ ~notExpiredYet(renderNow)
       [] kind = "createEscrow" ->
            address # NoAddress /\ escrow = NoEscrow /\ pendingAction # "createEscrow"
       [] OTHER -> FALSE

\* nextAction: the guidance line, by the first branch that returns.  The
\* deposit-deadline branch compares now() with depositDeadline as stored,
\* without the depositDeadline > 0n test of isDepositDeadlineExceeded
nextAction ==
  CASE address = NoAddress -> "Connect your wallet"
    [] address # NoAddress /\ escrowState = NoState -> "Load or Create an Escrow"
    [] address # NoAddress /\ isEscrowFinished ->
         "This escrow has been completed. No further actions."
    [] address # NoAddress /\ escrowState = 0 /\ renderNow > depositDeadline ->
         "Deposit deadline exceeded. Escrow inactive - no actions possible."
    [] /\ address # NoAddress /\ escrowState = 0 /\ ~(renderNow > depositDeadline)
       /\ renderNow > startDeadline /\ clientHasDeposit /\ clientPaidFee ->
         "Start deadline exceeded. Client can refund deposited funds."
    [] OTHER ->
         CASE role = "client" /\ escrowState = 0 ->
                IF ~clientHasDeposit /\ ~tokenApprovedOnce THEN "Step 1: Approve token"
                ELSE IF ~clientHasDeposit THEN "Step 2: Deposit tokens"
                ELSE IF ~clientPaidFee THEN "Step 3: Pay fee"
                ELSE "Wait for freelancer to start"
           [] role = "client" /\ escrowState = 1 -> "Wait for freelancer to submit proof"
           [] role = "client" /\ escrowState = 2 ->
                "Review proof -> Approve or Request Revision (or Raise Dispute)"
           [] role = "client" /\ escrowState = 4 -> "Wait for freelancer to resubmit proof"
           [] role = "client" /\ escrowState = 5 -> "Disputed: wait for oracle to settle"
           [] role = "freelancer" /\ escrowState = 0 ->
                IF ~clientHasDeposit THEN "Wait for client to deposit & pay fee"
                ELSE IF ~clientPaidFee THEN "Wait for client to pay fee"
                ELSE "Ready to start job"
           [] role = "freelancer" /\ escrowState = 1 ->
                "Work in progress - Submit Proof before deadline"
           [] role = "freelancer" /\ escrowState = 2 -> "Wait for client's decision"
           [] role = "freelancer" /\ escrowState = 4 ->
                "Revision requested - Submit Proof again"
           [] role = "freelancer" /\ escrowState = 5 -> "Disputed: wait for oracle to settle"
           [] role = "oracle" /\ escrowState = 5 -> "After grace period, press a Settle button"
           [] role = "oracle" /\ escrowState # 5 -> "No action for oracle"
           [] OTHER -> "You are not assigned to this escrow"

(* ------------------------------------------------------------------ *)
(* The chain as the RPC node reports it                                *)
(* ------------------------------------------------------------------ *)
ReadFields ==
  {"client", "freelancer", "oracle", "state", "depositAmount", "settlementToken",
   "FEE", "depositDeadline", "startDeadline", "completionDeadline", "revisions",
   "MAX_REVISIONS", "disputeStart", "DISPUTE_GRACE", "disputeAssertionId",
   "disputeAssertionExpiration", "accruedFees"}

\* reads whose failure left the participants undefined instead of zero
ReadDefaultUndefined(f) ==
  CASE f \in {"client", "freelancer", "oracle", "settlementToken"} -> NoAddress
    [] f = "MAX_REVISIONS" -> DefaultMaxRevisions
    [] f = "DISPUTE_GRACE" -> DefaultGrace
    [] f = "disputeAssertionId" -> ZeroAssertion
    [] OTHER -> 0

\* the value each .catch(() => ...) of refreshRoleAndState substitutes
ReadDefault(f) ==
  CASE f \in {"client", "freelancer", "oracle", "settlementToken"} -> ZeroAddress
    [] f = "MAX_REVISIONS" -> DefaultMaxRevisions
    [] f = "DISPUTE_GRACE" -> DefaultGrace
    [] f = "disputeAssertionId" -> ZeroAssertion
    [] OTHER -> 0

\* which reads of one refresh fail: none, one, or all of them (node unreachable)
FailSets == { {}, {"DISPUTE_GRACE"}, ReadFields }

\* pub.readContract(...).catch(() => default) through the client of chain c
ReadField(f, failed, c) ==
  IF f \in failed \/ c # chainSnap.chain THEN ReadDefault(f) ELSE chainSnap[f]

(* ------------------------------------------------------------------ *)
(* Work in flight                                                      *)
(* ------------------------------------------------------------------ *)
NoTask == [kind |-> "none"]

Slots == DOMAIN tasks
FreeSlots == {i \in Slots : tasks[i] = NoTask}
HasFreeSlot == FreeSlots # {}
FreeSlot == CHOOSE i \in FreeSlots : \A j \in FreeSlots : i <= j

\* what a handler closes over when it is invoked: the values of the last render
Closure ==
  [role |-> role, escrowState |-> escrowState,
   revisions |-> revisions, MAX_REVISIONS |-> MAX_REVISIONS,
   disputeStart |-> disputeStart, DISPUTE_GRACE |-> DISPUTE_GRACE,
   disputeAssertionId |-> disputeAssertionId,
   disputeAssertionExpiration |-> disputeAssertionExpiration,
   evidence |-> umaEvidence, amount |-> amount, now |-> nowT,
   renderNow |-> renderNow, depositAmount |-> depositAmount,
   clientPaidFee |-> clientPaidFee, depositDeadline |-> depositDeadline,
   startDeadline |-> startDeadline, completionDeadline |-> completionDeadline,
   tokenAllowance |-> tokenAllowance, settlement |-> settlement,
   escrowToken |-> escrowToken]

NewTask(kind, pc) ==
  [kind |-> kind, pc |-> pc, esc |-> escrow, acct |-> address,
   chain |-> currentChain, prov |-> provider, inv |-> Closure, ens |-> "none",
   mined |-> "none"]

\* program points at which the transaction has been handed to the wallet
\* (wallet.writeContract called) and the handler has not returned
HandedPcs == {"wallet", "receipt", "delay", "r_reads", "r_bal", "r_dec", "r_allow"}
Handed(t) == t # NoTask /\ t.kind \in ActionKinds /\ t.pc \in HandedPcs

(* ------------------------------------------------------------------ *)
(* Rendering                                                           *)
(* ------------------------------------------------------------------ *)
\* every state update re-renders: now() is read again; the canProposeNow memo
\* is recomputed only when its dependency graceEndsAt changed
Rendered ==
  /\ renderNow' = nowT
  /\ canProposeNow' =
       IF graceEndsAt' = graceEndsAt THEN canProposeNow
       ELSE CanProposeAt(graceEndsAt', nowT)

\* a render caused by state outside the snapshot (scroll position, countdown text)
Render ==
  /\ renderNow # nowT
  /\ renderNow' = nowT
  /\ UNCHANGED <<envVars, walletVars, escrow, role, snapVars, formVars,
                 pendingAction, status, canProposeNow, tasks, timers>>

\* the clock advances; nothing re-renders
Tick ==
  /\ nowT < MaxNow
  /\ nowT' = nowT + 1
  /\ UNCHANGED <<walletChain, walletAccount, chainSnap, walletVars, escrow, role,
                 snapVars, formVars, pendingAction, status, renderNow,
                 canProposeNow, tasks, timers>>

(* ------------------------------------------------------------------ *)
(* Form fields                                                         *)
(* ------------------------------------------------------------------ *)
setUmaEvidence(e) ==
  /\ umaPanelShown /\ emptyAssertion
  /\ e # umaEvidence
  /\ umaEvidence' = e
  /\ UNCHANGED <<envVars, walletVars, escrow, role, snapVars, amount, settlement,
                 pendingAction, status, tasks, timers>>
  /\ Rendered

setAmount(a) ==
  /\ showClient /\ escrowState = 0 /\ (~tokenApprovedOnce \/ ~clientHasDeposit)
  /\ a # amount
  /\ amount' = a
  /\ UNCHANGED <<envVars, walletVars, escrow, role, snapVars, umaEvidence,
                 settlement, pendingAction, status, tasks, timers>>
  /\ Rendered

\* a Settlement select that took whatever the user chose
handleSettlementChangeFree(newToken) ==
  /\ showClient /\ escrowState = 0 /\ (~tokenApprovedOnce \/ ~clientHasDeposit)
  /\ newToken # settlement
  /\ settlement' = newToken
  /\ UNCHANGED <<envVars, walletVars, escrow, role, snapVars, umaEvidence,
                 amount, pendingAction, status, tasks, timers>>
  /\ Rendered

\* the Settlement select (lines 2760-2772) calls handleSettlementChange
handleSettlementChange(newToken) ==
  /\ showClient /\ escrowState = 0 /\ (~tokenApprovedOnce \/ ~clientHasDeposit)
  /\ newToken # settlement
  /\ settlement' =
       IF escrowTokenSymbol # NoSymbol /\ escrowTokenSymbol # newToken
       THEN escrowTokenSymbol
       ELSE newToken
  /\ UNCHANGED <<envVars, walletVars, escrow, role, snapVars, umaEvidence,
                 amount, pendingAction, status, tasks, timers>>
  /\ Rendered

(* ------------------------------------------------------------------ *)
(* refreshRoleAndState (lines 741-1018)                                *)
(* ------------------------------------------------------------------ *)
\* lines 980-985: the role of acct among the participants just read
roleOf(acct, cAddr, fAddr, oAddr) ==
  IF acct # NoAddress
  THEN CASE lower(acct) = lower(cAddr) -> "client"
         [] lower(acct) = lower(fAddr) -> "freelancer"
         [] lower(acct) = lower(oAddr) -> "oracle"
         [] OTHER -> "unknown"
  ELSE "unknown"

\* lines 748-771: no reads when the closure has no address
DisconnectedDefaults ==
  /\ escrowClient' = ZeroAddress
  /\ escrowFreelancer' = ZeroAddress
  /\ escrowOracle' = ZeroAddress
  /\ escrowState' = 0
  /\ depositAmount' = 0
  /\ escrowToken' = ZeroAddress
  /\ FEE' = 0
  /\ depositDeadline' = 0
  /\ startDeadline' = 0
  /\ completionDeadline' = 0
  /\ revisions' = 0
  /\ MAX_REVISIONS' = DefaultMaxRevisions
  /\ disputeStart' = 0
  /\ DISPUTE_GRACE' = DefaultGrace
  /\ escrowBnbBalance' = 0
  /\ tokenApprovedOnce' = FALSE
  /\ role' = "unknown"
  /\ escrowTokenDecimals' = FallbackDecimals
  /\ status' = "state"
  /\ UNCHANGED <<accruedFees, disputeAssertionId, disputeAssertionExpiration,
                 tokenAllowance>>

RefreshTask(esc, acct) ==
  [kind |-> "refresh", pc |-> "r_reads", esc |-> esc, acct |-> acct,
   chain |-> currentChain, prov |-> provider, inv |-> Closure, ens |-> "none",
   mined |-> "none"]

\* the handler or refresh in slot i returns: a handler inside withPending runs
\* its finally block, which schedules the release of pendingAction
Returned(i) ==
  /\ tasks' = [tasks EXCEPT ![i] = NoTask]
  /\ timers' = IF tasks[i].kind \in ActionKinds THEN timers + 1 ELSE timers

\* lines 774-974: Promise.all of the field reads resolves
RefreshReads(i) ==
  /\ tasks[i] # NoTask /\ tasks[i].pc = "r_reads"
  /\ \E failed \in FailSets :
       LET t == tasks[i]
           rd(f) == ReadField(f, failed, t.chain)
       IN IF rd("client") = ZeroAddress /\ rd("freelancer") = ZeroAddress
             /\ rd("oracle") = ZeroAddress
          THEN /\ status' = "wrongChain"
               /\ role' = "unknown"
               /\ umaEvidence' =
                    IF t.kind = "proposeResolution" THEN <<>> ELSE umaEvidence
               /\ Returned(i)
               /\ UNCHANGED snapVars
          ELSE /\ escrowClient' = rd("client")
               /\ escrowFreelancer' = rd("freelancer")
               /\ escrowOracle' = rd("oracle")
               /\ escrowState' = rd("state")
               /\ depositAmount' = rd("depositAmount")
               /\ escrowToken' = rd("settlementToken")
               /\ FEE' = rd("FEE")
               /\ depositDeadline' = rd("depositDeadline")
               /\ startDeadline' = rd("startDeadline")
               /\ completionDeadline' = rd("completionDeadline")
               /\ revisions' = rd("revisions")
               /\ MAX_REVISIONS' = rd("MAX_REVISIONS")
               /\ disputeStart' = rd("disputeStart")
               /\ DISPUTE_GRACE' = rd("DISPUTE_GRACE")
               /\ accruedFees' = rd("accruedFees")
               /\ disputeAssertionId' = rd("disputeAssertionId")
               /\ disputeAssertionExpiration' = rd("disputeAssertionExpiration")
               /\ tasks' = [tasks EXCEPT ![i] =
                    [t EXCEPT !.pc = "r_bal"] @@
                    [cAddr |-> rd("client"), fAddr |-> rd("freelancer"),
                     oAddr |-> rd("oracle"), dep |-> rd("depositAmount")]]
               /\ UNCHANGED <<extraVars, role, status, umaEvidence, timers>>
  /\ UNCHANGED <<envVars, walletVars, escrow, amount, pendingAction>>
  /\ AutoLock
  /\ Rendered

\* lines 976-985: the balance read resolves; role is set
RefreshBalance(i) ==
  /\ tasks[i] # NoTask /\ tasks[i].pc = "r_bal"
  /\ LET t == tasks[i] IN
       /\ \E ok \in BOOLEAN :
            escrowBnbBalance' =
              IF ok /\ t.chain = chainSnap.chain THEN chainSnap.balance ELSE 0
       /\ tokenApprovedOnce' = IF t.dep > 0 THEN TRUE ELSE tokenApprovedOnce
       /\ role' = roleOf(t.acct, t.cAddr, t.fAddr, t.oAddr)
       /\ tasks' = [tasks EXCEPT ![i].pc = "r_dec"]
  /\ UNCHANGED <<envVars, walletVars, escrow, partyVars, phaseVars, deadlineVars,
                 disputeVars, escrowTokenDecimals, tokenAllowance, formVars,
                 pendingAction, status, timers>>
  /\ Rendered

\* lines 568-577: 6 on Base Sepolia without a read, else the token's decimals();
\* NoDecimals stands for the rejected promise
readDecimals(c, ok) ==
  IF c = BaseSepoliaId THEN BaseDecimals
  ELSE IF ok /\ c = chainSnap.chain THEN chainSnap.decimals ELSE NoDecimals

\* lines 987-1009 when the account is not the client
RefreshDecimals(i) ==
  /\ tasks[i] # NoTask /\ tasks[i].pc = "r_dec"
  /\ LET t == tasks[i] IN
       /\ \E ok \in BOOLEAN :
            escrowTokenDecimals' =
              IF readDecimals(t.chain, ok) = NoDecimals THEN FallbackDecimals
              ELSE readDecimals(t.chain, ok)
       /\ IF t.acct # NoAddress /\ lower(t.acct) = lower(t.cAddr)
          THEN /\ tasks' = [tasks EXCEPT ![i].pc = "r_allow"]
               /\ UNCHANGED <<tokenAllowance, status, umaEvidence, timers>>
          ELSE /\ tokenAllowance' = ZeroQty
               /\ status' = "state"
               /\ umaEvidence' =
                    IF t.kind = "proposeResolution" THEN <<>> ELSE umaEvidence
               /\ Returned(i)
  /\ UNCHANGED <<envVars, walletVars, escrow, role, partyVars, phaseVars,
                 deadlineVars, disputeVars, escrowBnbBalance, tokenApprovedOnce,
                 amount, settlement, pendingAction>>
  /\ Rendered

\* lines 990-1009: the client's allowance read resolves
RefreshAllowance(i) ==
  /\ tasks[i] # NoTask /\ tasks[i].pc = "r_allow"
  /\ LET t == tasks[i] IN
       /\ \E ok \in BOOLEAN :
            tokenAllowance' =
              IF ok /\ t.chain = chainSnap.chain THEN chainSnap.allowance ELSE ZeroQty
       /\ status' = "state"
       /\ umaEvidence' = IF t.kind = "proposeResolution" THEN <<>> ELSE umaEvidence
       /\ Returned(i)
  /\ UNCHANGED <<envVars, walletVars, escrow, role, partyVars, phaseVars,
                 deadlineVars, disputeVars, escrowTokenDecimals, escrowBnbBalance,
                 tokenApprovedOnce, amount, settlement, pendingAction>>
  /\ Rendered

(* ------------------------------------------------------------------ *)
(* normalizeAndValidateCid (lines 176-192)                             *)
(* ------------------------------------------------------------------ *)
CidLen == 59
IpfsPrefix == <<"i", "p", "f", "s", ":", "/", "/">>
AlphaNum == {"a", "Z", "7"}
Rep(ch, n) == [k \in 1 .. n |-> ch]
NullCid == <<"null">>

startsWithIpfs(s) ==
  Len(s) >= Len(IpfsPrefix) /\ SubSeq(s, 1, Len(IpfsPrefix)) = IpfsPrefix

\* a validator that accepts a bare CID only and so rejects its own output
normalizeAndValidateCidBare(input) ==
  IF input = <<>> THEN NullCid
  ELSE LET cidPart == trim(input)
       IN IF Len(cidPart) = CidLen /\ \A k \in 1 .. Len(cidPart) : cidPart[k] \in AlphaNum
          THEN IpfsPrefix \o cidPart
          ELSE NullCid

normalizeAndValidateCid(input) ==
  IF input = <<>> THEN NullCid
  ELSE LET cleaned == trim(input)
           cidPart == IF startsWithIpfs(cleaned)
                      THEN SubSeq(cleaned, Len(IpfsPrefix) + 1, Len(cleaned))
                      ELSE cleaned
       IN IF Len(cidPart) = CidLen /\ \A k \in 1 .. Len(cidPart) : cidPart[k] \in AlphaNum
          THEN IpfsPrefix \o cidPart
          ELSE NullCid

CidInputs ==
  { Rep("a", CidLen), <<" ">> \o IpfsPrefix \o Rep("Z", CidLen),
    Rep("7", CidLen - 1), Rep("a", CidLen - 1) \o <<"-">> }

(* ------------------------------------------------------------------ *)
(* The action handlers, up to their first await                        *)
(* ------------------------------------------------------------------ *)
\* if (!wallet || !address || !escrow) throw
connected == provider /\ address # NoAddress /\ escrow # NoEscrow

\* a click on an enabled button runs the handler's synchronous checks: a failed
\* check throws into the handler's catch (setStatus), a refusal returns
\* silently, otherwise the handler suspends in ensureCurrentChain
\* (proposeUmaResolution first sets pendingProposeSide, which re-renders)
Invoked(kind, checksPass, accepted, arg) ==
  /\ HasFreeSlot
  /\ timers < MaxTimers
  /\ ButtonEnabled(kind)
  /\ IF ~checksPass
     THEN /\ status' = "failed"
          /\ UNCHANGED tasks
     ELSE /\ UNCHANGED status
          /\ tasks' = IF accepted
                      THEN [tasks EXCEPT ![FreeSlot] =
                              NewTask(kind, "ensure") @@ [arg |-> arg]]
                      ELSE tasks
  /\ UNCHANGED <<envVars, walletVars, escrow, role, snapVars, formVars,
                 pendingAction, timers>>
  /\ IF ~checksPass \/ (accepted /\ kind = "proposeResolution")
     THEN Rendered
     ELSE UNCHANGED <<renderNow, canProposeNow>>

approveSpending ==
  Invoked("approve", connected /\ role = "client" /\ escrowState = 0, TRUE, <<>>)

depositFn ==
  Invoked("deposit", connected /\ role = "client" /\ escrowState = 0, TRUE, <<>>)

payFee ==
  Invoked("payFee", connected /\ role = "client" /\ escrowState = 0, TRUE, <<>>)

requestRevision ==
  Invoked("requestRevision", connected /\ role = "client" /\ escrowState = 2,
          TRUE, <<>>)

approveJob ==
  Invoked("approveJob", connected /\ role = "client" /\ escrowState = 2, TRUE, <<>>)

raiseDispute ==
  Invoked("raiseDispute",
          connected /\ (role = "client" \/ role = "freelancer") /\ canRaiseDispute,
          TRUE, <<>>)

refundNoStart ==
  Invoked("refund", connected /\ role = "client" /\ canRefundNoStart, TRUE, <<>>)

startJob ==
  Invoked("startJob", connected /\ role = "freelancer" /\ canFreelancerStart,
          TRUE, <<>>)

\* submitProofPrompt validates the typed text, submitProof validates it again
submitProof(input) ==
  /\ normalizeAndValidateCid(input) # NullCid
  /\ Invoked("submitProof",
             connected /\ role = "freelancer" /\ canFreelancerSubmit,
             normalizeAndValidateCid(normalizeAndValidateCid(input)) # NullCid,
             normalizeAndValidateCid(normalizeAndValidateCid(input)))

proposeUmaResolution(freelancerWins) ==
  Invoked("proposeResolution",
          connected /\ escrowState = 5 /\ isBaseSepolia /\ emptyAssertion,
          ~(umaEvidence = <<>> \/ Len(trim(umaEvidence)) < MinEvidenceLen),
          <<freelancerWins, trim(umaEvidence)>>)

\* the expiry check reads the clock again (Date.now()), not the render's value
finalizeUmaDispute ==
  Invoked("finalizeDispute",
          connected /\ escrowState = 5 /\ isBaseSepolia /\ ~emptyAssertion,
          ~notExpiredYet(nowT), <<>>)

createNewEscrow ==
  Invoked("createEscrow", provider /\ address # NoAddress, TRUE, <<>>)

(* ------------------------------------------------------------------ *)
(* ensureCurrentChain (lines 579-642)                                  *)
(* ------------------------------------------------------------------ *)
\* what follows the await of ensureCurrentChain in the handler of task t, whose
\* network check ended with outcome ens: approve and deposit read the decimals,
\* the network buttons are done, every other handler enters withPending, which
\* sets pendingAction and calls wallet.writeContract
AfterEnsure(i, ens) ==
  LET t == tasks[i] IN
    IF t.kind \in {"approve", "deposit"}
    THEN /\ tasks' = [tasks EXCEPT ![i] = [t EXCEPT !.pc = "decimals", !.ens = ens]]
         /\ UNCHANGED <<pendingAction, status, renderNow, canProposeNow>>
    ELSE IF t.kind = "switchNet"
    THEN /\ tasks' = [tasks EXCEPT ![i] = NoTask]
         /\ UNCHANGED <<pendingAction, status, renderNow, canProposeNow>>
    ELSE /\ tasks' = [tasks EXCEPT ![i] = [t EXCEPT !.pc = "wallet", !.ens = ens]]
         /\ pendingAction' = t.kind
         /\ status' = IF t.kind = "createEscrow" THEN "creating" ELSE status
         /\ Rendered

\* eth_chainId answers: return when the wallet is on the target chain, else
\* ask the wallet to switch
EnsureChainRead(i) ==
  /\ tasks[i] # NoTask /\ tasks[i].pc = "ensure"
  /\ UNCHANGED <<envVars, walletVars, escrow, role, snapVars, formVars, timers>>
  /\ IF walletChain = tasks[i].chain
     THEN AfterEnsure(i, "already")
     ELSE /\ tasks' = [tasks EXCEPT ![i].pc = "switch"]
          /\ UNCHANGED <<pendingAction, status, renderNow, canProposeNow>>

\* wallet_switchEthereumChain (and wallet_addEthereumChain) answer: every
\* failure is caught, reported by a toast, and ensureCurrentChain returns
SwitchOutcomes == {"switched", "cancelled", "failed", "addFailed"}

SwitchAnswered(i, outcome) ==
  /\ tasks[i] # NoTask /\ tasks[i].pc = "switch"
  /\ UNCHANGED <<nowT, walletAccount, chainSnap, walletVars, escrow, role,
                 snapVars, formVars, timers>>
  /\ walletChain' = IF outcome = "switched" THEN tasks[i].chain ELSE walletChain
  /\ AfterEnsure(i, outcome)

(* ------------------------------------------------------------------ *)
(* approveSpending / depositFn after the network check                 *)
(* ------------------------------------------------------------------ *)
\* readDecimals answers; a rejected read throws into the handler's catch, a
\* zero amount returns after a toast, otherwise withPending is entered
DecimalsRead(i) ==
  /\ tasks[i] # NoTask /\ tasks[i].pc = "decimals"
  /\ UNCHANGED <<envVars, walletVars, escrow, role, snapVars, formVars, timers>>
  /\ \E ok \in BOOLEAN :
       LET t == tasks[i]
           dec == readDecimals(t.chain, ok)
       IN IF dec = NoDecimals
          THEN /\ status' = "failed"
               /\ tasks' = [tasks EXCEPT ![i] = NoTask]
               /\ UNCHANGED pendingAction
               /\ Rendered
          ELSE IF QtyIsZero(parseUnits(t.inv.amount, dec))
          THEN /\ tasks' = [tasks EXCEPT ![i] = NoTask]
               /\ UNCHANGED <<pendingAction, status, renderNow, canProposeNow>>
          ELSE /\ tasks' = [tasks EXCEPT ![i].pc = "wallet"]
               /\ pendingAction' = t.kind
               /\ UNCHANGED status
               /\ Rendered

(* ------------------------------------------------------------------ *)
(* withPending (lines 1057-1078) and the handler bodies inside it      *)
(* ------------------------------------------------------------------ *)
\* wallet.writeContract resolves with a transaction hash
WalletAccept(i) ==
  /\ tasks[i] # NoTask /\ tasks[i].pc = "wallet"
  /\ status' = "tx"
  /\ tokenApprovedOnce' =
       IF tasks[i].kind = "approve" THEN TRUE ELSE tokenApprovedOnce
  /\ tasks' = [tasks EXCEPT ![i].pc =
                 IF tasks[i].kind = "createEscrow" THEN "receipt" ELSE "delay"]
  /\ UNCHANGED <<envVars, walletVars, escrow, role, partyVars, phaseVars,
                 deadlineVars, disputeVars, escrowTokenDecimals, escrowBnbBalance,
                 tokenAllowance, formVars, pendingAction, timers>>
  /\ Rendered

\* wallet.writeContract rejects (signature refused, simulation reverted,
\* insufficient funds): withPending's catch and finally
WalletReject(i) ==
  /\ tasks[i] # NoTask /\ tasks[i].pc = "wallet"
  /\ status' = "actionFailed"
  /\ Returned(i)
  /\ UNCHANGED <<envVars, walletVars, escrow, role, snapVars, formVars,
                 pendingAction>>
  /\ Rendered

\* what became of a transaction the wallet sent; the handlers other than
\* createNewEscrow never ask (no waitForTransactionReceipt)
TxOutcomes == {"success", "reverted"}

\* the 1200 ms settle-down delay elapses and refreshRoleAndState(escrow, address)
\* is called with the handler's own escrow and address; by then the
\* transaction is mined, with either outcome
DelayElapsed(i) ==
  /\ tasks[i] # NoTask /\ tasks[i].pc = "delay"
  /\ \E outcome \in TxOutcomes :
       tasks' = [tasks EXCEPT ![i] =
                  [@ EXCEPT !.pc = "r_reads",
                            !.mined = IF tasks[i].kind \in ActionKinds
                                      THEN outcome ELSE "none"]]
  /\ UNCHANGED <<envVars, walletVars, escrow, role, snapVars, formVars,
                 pendingAction, status, renderNow, canProposeNow, timers>>

\* setTimeout(() => setPendingAction(null), 1500) fires
ReleaseTimer ==
  /\ timers > 0
  /\ timers' = timers - 1
  /\ pendingAction' = NoAction
  /\ UNCHANGED <<envVars, walletVars, escrow, role, snapVars, formVars, status,
                 tasks>>
  /\ Rendered

(* ------------------------------------------------------------------ *)
(* createNewEscrow after the wallet accepted (lines 1277-1352)         *)
(* ------------------------------------------------------------------ *)
ReceiptOutcomes == {"created", "nolog", "reverted"}

\* waitForTransactionReceipt resolves.  With a JobCreated log the new escrow is
\* loaded (setEscrow), which runs the effects on [escrow] and [escrow, address]
\* with the rendered address, and a second refresh is scheduled 1200 ms later
\* with the handler's own address; withPending's finally follows
Receipt(i, outcome) ==
  /\ tasks[i] # NoTask /\ tasks[i].pc = "receipt"
  /\ LET t == tasks[i]
         later == [RefreshTask("E1", t.acct) EXCEPT !.kind = "createdRefresh",
                                                    !.pc = "delay",
                                                    !.chain = t.chain]
     IN IF outcome # "created"
        THEN /\ status' = IF outcome = "reverted" THEN "actionFailed" ELSE "confirmed"
             /\ Returned(i)
             /\ UNCHANGED <<escrow, role, snapVars>>
        ELSE IF escrow = "E1"
        THEN /\ status' = "created"
             /\ tasks' = [tasks EXCEPT ![i] = later]
             /\ timers' = timers + 1
             /\ UNCHANGED <<escrow, role, snapVars>>
        ELSE IF address = NoAddress
        THEN /\ escrow' = "E1"
             /\ DisconnectedDefaults
             /\ tasks' = [tasks EXCEPT ![i] = later]
             /\ timers' = timers + 1
        ELSE /\ FreeSlots # {}
             /\ escrow' = "E1"
             /\ status' = "created"
             /\ tokenApprovedOnce' = FALSE
             /\ tasks' = [tasks EXCEPT ![i] = later,
                                       ![FreeSlot] = RefreshTask("E1", address)]
             /\ timers' = timers + 1
             /\ UNCHANGED <<role, partyVars, phaseVars, deadlineVars, disputeVars,
                            escrowTokenDecimals, escrowBnbBalance, tokenAllowance>>
  /\ UNCHANGED <<envVars, walletVars, formVars, pendingAction>>
  /\ Rendered

(* ------------------------------------------------------------------ *)
(* Connecting, disconnecting, wallet events (lines 389-561, 1151-1164) *)
(* ------------------------------------------------------------------ *)
\* effect on [chainId]: follow the wallet onto a supported chain
followChain(c) == IF c \in SupportedChains THEN c ELSE currentChain

\* connect(): the wallet grants an account, or the request is refused
connect ==
  /\ address = NoAddress /\ ~provider
  /\ \E granted \in BOOLEAN :
       IF ~granted
       THEN /\ status' = "connectFailed"
            /\ UNCHANGED <<walletVars, tasks>>
       ELSE /\ escrow # NoEscrow => HasFreeSlot
            /\ provider' = TRUE
            /\ chainId' = walletChain
            /\ currentChain' = followChain(walletChain)
            /\ address' = walletAccount
            /\ status' = "connected"
            /\ tasks' = IF escrow = NoEscrow THEN tasks
                        ELSE [tasks EXCEPT ![FreeSlot] =
                                [RefreshTask(escrow, walletAccount)
                                   EXCEPT !.chain = followChain(walletChain),
                                          !.prov = TRUE]]
  /\ UNCHANGED <<envVars, escrow, role, snapVars, formVars, pendingAction, timers>>
  /\ Rendered

\* hardDisconnect(): the Disconnect button, or accountsChanged with no account
hardDisconnect ==
  /\ address # NoAddress
  /\ address' = NoAddress
  /\ provider' = FALSE
  /\ role' = "unset"
  /\ chainId' = UnknownChain
  /\ escrow' = NoEscrow
  /\ escrowClient' = NoAddress
  /\ escrowFreelancer' = NoAddress
  /\ escrowOracle' = NoAddress
  /\ escrowToken' = NoAddress
  /\ escrowState' = NoState
  /\ depositAmount' = 0
  /\ escrowBnbBalance' = 0
  /\ tokenApprovedOnce' = FALSE
  /\ escrowTokenDecimals' = NoDecimals
  /\ status' = "disconnected"
  /\ UNCHANGED <<envVars, currentChain, FEE, accruedFees, deadlineVars,
                 disputeVars, tokenAllowance, formVars, pendingAction, tasks,
                 timers>>
  /\ Rendered

\* the wallet exposes another account: accountsChanged sets address, and the
\* effect on [escrow, address] refreshes
accountsChanged(a) ==
  /\ a # walletAccount
  /\ UNCHANGED <<nowT, walletChain, chainSnap, provider, chainId, currentChain,
                 escrow, role, snapVars, formVars, pendingAction, status, timers>>
  /\ walletAccount' = a
  /\ IF provider /\ address # NoAddress
     THEN /\ escrow # NoEscrow => HasFreeSlot
          /\ address' = a
          /\ tasks' = IF escrow = NoEscrow THEN tasks
                      ELSE [tasks EXCEPT ![FreeSlot] = RefreshTask(escrow, a)]
          /\ Rendered
     ELSE UNCHANGED <<address, tasks, renderNow, canProposeNow>>

\* the user changes the network inside the wallet
walletNetworkChanged(c) ==
  /\ c # walletChain
  /\ walletChain' = c
  /\ UNCHANGED <<nowT, walletAccount, chainSnap, walletVars, escrow, role,
                 snapVars, formVars, pendingAction, status, renderNow,
                 canProposeNow, tasks, timers>>

\* the chainChanged event, or the 5 s poll of eth_chainId, reports the wallet's
\* network; the effect on [chainId] follows it
chainChanged ==
  /\ provider /\ chainId # walletChain
  /\ chainId' = walletChain
  /\ currentChain' = followChain(walletChain)
  /\ UNCHANGED <<envVars, address, provider, escrow, role, snapVars, umaEvidence,
                 amount, pendingAction, status, tasks, timers>>
  /\ AutoLock
  /\ Rendered

wrongNet == chainId # currentChain /\ chainId # UnknownChain

\* the BNB / Base buttons: setCurrentChain(c), then ensureCurrentChain(provider)
\* of the render in which the button was drawn, i.e. towards the old currentChain
selectNetwork(c) ==
  /\ address # NoAddress /\ HasFreeSlot
  /\ currentChain' = c
  /\ tasks' = [tasks EXCEPT ![FreeSlot] = NewTask("switchNet", "ensure")]
  /\ UNCHANGED <<envVars, address, provider, chainId, escrow, role, snapVars,
                 umaEvidence, amount, pendingAction, status, timers>>
  /\ AutoLock
  /\ Rendered

\* the "Switch to ..." button shown while wrongNet
switchNetwork ==
  /\ address # NoAddress /\ wrongNet /\ HasFreeSlot
  /\ tasks' = [tasks EXCEPT ![FreeSlot] = NewTask("switchNet", "ensure")]
  /\ UNCHANGED <<envVars, walletVars, escrow, role, snapVars, formVars,
                 pendingAction, status, renderNow, canProposeNow, timers>>

(* ------------------------------------------------------------------ *)
(* Loading an escrow (lines 316-361, 384-386, 1020-1036)               *)
(* ------------------------------------------------------------------ *)
EscrowInputs == {"", "bad", "E1"}
isValidEthereumAddress(v) == v \in Escrows

resetEscrowData ==
  /\ escrowClient' = NoAddress
  /\ escrowFreelancer' = NoAddress
  /\ escrowOracle' = NoAddress
  /\ escrowToken' = NoAddress
  /\ escrowState' = NoState
  /\ depositAmount' = 0
  /\ escrowTokenDecimals' = NoDecimals
  /\ depositDeadline' = 0
  /\ startDeadline' = 0
  /\ completionDeadline' = 0
  /\ revisions' = 0
  /\ MAX_REVISIONS' = DefaultMaxRevisions
  /\ DISPUTE_GRACE' = DefaultGrace
  /\ disputeStart' = 0
  /\ disputeAssertionId' = ZeroAssertion
  /\ disputeAssertionExpiration' = 0
  /\ FEE' = 0
  /\ escrowBnbBalance' = 0
  /\ tokenApprovedOnce' = FALSE
  /\ tokenAllowance' = ZeroQty
  /\ accruedFees' = 0
  /\ role' = "unset"
  /\ status' = "init"

handleEscrowChange(v) ==
  /\ address # NoAddress
  /\ IF isValidEthereumAddress(v)
     THEN /\ v # escrow
          /\ HasFreeSlot
          /\ escrow' = v
          /\ tokenApprovedOnce' = FALSE
          /\ tasks' = [tasks EXCEPT ![FreeSlot] =
                         [RefreshTask(v, address) EXCEPT !.inv = Closure]]
          /\ UNCHANGED <<role, partyVars, phaseVars, deadlineVars, disputeVars,
                         escrowTokenDecimals, escrowBnbBalance, tokenAllowance,
                         status>>
     ELSE /\ escrow' = NoEscrow
          /\ resetEscrowData
          /\ UNCHANGED tasks
  /\ UNCHANGED <<envVars, walletVars, formVars, pendingAction, timers>>
  /\ Rendered

\* a Refresh button that waited for pendingAction to clear
readStateAllWhenIdle ==
  /\ pendingAction = NoAction
  /\ address # NoAddress /\ escrow # NoEscrow /\ HasFreeSlot
  /\ \A i \in Slots : tasks[i].kind # "readState"
  /\ tasks' = [tasks EXCEPT ![FreeSlot] =
                 [RefreshTask(escrow, address) EXCEPT !.kind = "readState"]]
  /\ UNCHANGED <<envVars, walletVars, escrow, role, snapVars, formVars,
                 pendingAction, status, timers>>
  /\ Rendered

\* the Refresh button, disabled while its own refresh is running
readStateAll ==
  /\ address # NoAddress /\ escrow # NoEscrow /\ HasFreeSlot
  /\ \A i \in Slots : tasks[i].kind # "readState"
  /\ tasks' = [tasks EXCEPT ![FreeSlot] =
                 [RefreshTask(escrow, address) EXCEPT !.kind = "readState"]]
  /\ UNCHANGED <<envVars, walletVars, escrow, role, snapVars, formVars,
                 pendingAction, status, timers>>
  /\ Rendered

(* ------------------------------------------------------------------ *)
(* The escrow contract's storage: the snapshots the chain can serve    *)
(* ------------------------------------------------------------------ *)
\* an escrow on BNB testnet in Funding, nothing deposited; the participants as
\* the contract returns them (checksummed, i.e. mixed case)
Funding ==
  [chain |-> BscTestnetId, client |-> "C", freelancer |-> "f", oracle |-> "o",
   state |-> 0, depositAmount |-> 0, settlementToken |-> "T", FEE |-> 1,
   depositDeadline |-> 1, startDeadline |-> 1, completionDeadline |-> 1,
   revisions |-> 0, MAX_REVISIONS |-> 2, disputeStart |-> 0, DISPUTE_GRACE |-> 1,
   disputeAssertionId |-> ZeroAssertion, disputeAssertionExpiration |-> 0,
   accruedFees |-> 0, balance |-> 0, decimals |-> 18, allowance |-> ZeroQty]

\* the same escrow settled in the USDC of BNB testnet, as the contract returns
\* the address (checksummed)
FundingUsdc == [Funding EXCEPT !.settlementToken = "USDC97"]

Deposited == [Funding EXCEPT !.depositAmount = 1, !.allowance = Qty(1, 18)]
\* deposit and fee paid; the deposit deadline lies after the start deadline
Funded ==
  [Funding EXCEPT !.depositAmount = 1, !.accruedFees = 1, !.balance = 1,
                  !.depositDeadline = 2]
Started == [Funded EXCEPT !.state = 1, !.balance = 0]
Submitted == [Started EXCEPT !.state = 2]
SubmittedMax == [Submitted EXCEPT !.revisions = 2]
Revised == [Started EXCEPT !.state = 4, !.revisions = 1]
Approved == [Started EXCEPT !.state = 3]
\* disputed at second 1, grace 1 s: settlement opens at second 2
DisputedBsc == [Started EXCEPT !.state = 5, !.disputeStart = 1]
DisputedBase == [DisputedBsc EXCEPT !.chain = BaseSepoliaId, !.decimals = 6]
\* an assertion that expires at second 2
Asserted ==
  [DisputedBase EXCEPT !.disputeAssertionId = "0xA1",
                       !.disputeAssertionExpiration = 2]
Resolved == [Asserted EXCEPT !.state = 6]

Snaps ==
  {Funding, Deposited, Funded, Started, Submitted, SubmittedMax, Revised,
   Approved, DisputedBsc, DisputedBase, Asserted, Resolved}

(* ------------------------------------------------------------------ *)
(* The specification                                                   *)
(* ------------------------------------------------------------------ *)
\* the component after construction (the useState defaults)
InitApp ==
  /\ nowT = 0
  /\ address = NoAddress
  /\ provider = FALSE
  /\ chainId = UnknownChain
  /\ currentChain = BscTestnetId
  /\ escrow = NoEscrow
  /\ role = "unset"
  /\ escrowClient = NoAddress
  /\ escrowFreelancer = NoAddress
  /\ escrowOracle = NoAddress
  /\ escrowToken = NoAddress
  /\ escrowState = NoState
  /\ depositAmount = 0
  /\ escrowTokenDecimals = NoDecimals
  /\ depositDeadline = 0
  /\ startDeadline = 0
  /\ completionDeadline = 0
  /\ revisions = 0
  /\ MAX_REVISIONS = DefaultMaxRevisions
  /\ DISPUTE_GRACE = DefaultGrace
  /\ disputeStart = 0
  /\ FEE = 0
  /\ disputeAssertionId = ZeroAssertion
  /\ disputeAssertionExpiration = 0
  /\ umaEvidence = <<>>
  /\ pendingAction = NoAction
  /\ status = "init"
  /\ escrowBnbBalance = 0
  /\ tokenApprovedOnce = FALSE
  /\ tokenAllowance = ZeroQty
  /\ accruedFees = 0
  /\ amount = "0"
  /\ settlement = "USDT"
  /\ renderNow = 0
  /\ canProposeNow = CanProposeAt(GraceEndsAt(0, DefaultGrace), 0)
  /\ timers = 0

\* one escrow, one wallet account and one handler or refresh at a time, the
\* wallet on the escrow's network: every snapshot, every role, the clock
Init ==
  /\ InitApp
  /\ chainSnap \in Snaps
  /\ walletAccount \in Accounts
  /\ walletChain = chainSnap.chain
  /\ tasks = [i \in 1 .. OneTask |-> NoTask]

Loading ==
  \/ connect
  \/ \E v \in EscrowInputs : handleEscrowChange(v)
  \/ readStateAll

Forms ==
  \/ \E e \in EvidenceInputs : setUmaEvidence(e)
  \/ \E a \in AmountInputs : setAmount(a)

Handlers ==
  \/ approveSpending
  \/ depositFn
  \/ payFee
  \/ requestRevision
  \/ approveJob
  \/ raiseDispute
  \/ refundNoStart
  \/ startJob
  \/ \E input \in CidInputs : submitProof(input)
  \/ \E freelancerWins \in BOOLEAN : proposeUmaResolution(freelancerWins)
  \/ finalizeUmaDispute

Resumed(i) ==
  \/ EnsureChainRead(i)
  \/ DecimalsRead(i)
  \/ WalletAccept(i)
  \/ WalletReject(i)
  \/ DelayElapsed(i)
  \/ RefreshReads(i)
  \/ RefreshBalance(i)
  \/ RefreshDecimals(i)
  \/ RefreshAllowance(i)

Clock ==
  \/ Tick
  \/ Render

Next ==
  \/ Loading
  \/ Forms
  \/ Handlers
  \/ \E i \in Slots : Resumed(i)
  \/ ReleaseTimer
  \/ Clock

Spec == Init /\ [][Next]_vars

(* ------------------------------------------------------------------ *)
(* Handlers in flight together, the wallet on any network              *)
(* ------------------------------------------------------------------ *)
InitFlight ==
  /\ InitApp
  /\ chainSnap \in {Funding, Submitted}
  /\ walletAccount = "c"
  /\ walletChain \in {BscTestnetId, OtherChainId}
  /\ tasks = [i \in 1 .. MaxTasks |-> NoTask]

NextFlight ==
  \/ connect
  \/ handleEscrowChange("E1")
  \/ setAmount("1")
  \/ approveSpending
  \/ requestRevision
  \/ approveJob
  \/ raiseDispute
  \/ \E i \in Slots : Resumed(i)
  \/ \E i \in Slots, outcome \in SwitchOutcomes : SwitchAnswered(i, outcome)
  \/ ReleaseTimer
  \/ chainChanged

SpecFlight == InitFlight /\ [][NextFlight]_vars

(* ------------------------------------------------------------------ *)
(* Handlers awaiting a wallet that may never answer                    *)
(* ------------------------------------------------------------------ *)
InitLive ==
  /\ InitApp
  /\ chainSnap = Submitted
  /\ walletAccount = "c"
  /\ walletChain = BscTestnetId
  /\ tasks = [i \in 1 .. OneTask |-> NoTask]

Internal(i) ==
  \/ EnsureChainRead(i)
  \/ DelayElapsed(i)
  \/ RefreshReads(i)
  \/ RefreshBalance(i)
  \/ RefreshDecimals(i)
  \/ RefreshAllowance(i)

NextLive ==
  \/ connect
  \/ handleEscrowChange("E1")
  \/ requestRevision
  \/ approveJob
  \/ raiseDispute
  \/ \E i \in Slots : Internal(i)
  \/ \E i \in Slots : WalletAccept(i)
  \/ \E i \in Slots : WalletReject(i)
  \/ ReleaseTimer
  \/ hardDisconnect
  \/ createNewEscrow
  \/ \E i \in Slots, outcome \in ReceiptOutcomes : Receipt(i, outcome)

\* the event loop runs every timer that is due and every continuation whose
\* RPC read has answered; nothing obliges the wallet (its user) to answer
SpecLive ==
  /\ InitLive
  /\ [][NextLive]_vars
  /\ WF_vars(ReleaseTimer)
  /\ \A i \in 1 .. OneTask : WF_vars(Internal(i))

(* ------------------------------------------------------------------ *)
(* Creating an escrow and working on it                                *)
(* ------------------------------------------------------------------ *)
InitCreate ==
  /\ InitApp
  /\ chainSnap = Funding
  /\ walletAccount = "c"
  /\ walletChain = BscTestnetId
  /\ tasks = [i \in 1 .. MaxTasks |-> NoTask]

NextCreate ==
  \/ connect
  \/ createNewEscrow
  \/ setAmount("1")
  \/ approveSpending
  \/ \E i \in Slots : Resumed(i)
  \/ \E i \in Slots, outcome \in ReceiptOutcomes : Receipt(i, outcome)
  \/ ReleaseTimer

SpecCreate == InitCreate /\ [][NextCreate]_vars

(* ------------------------------------------------------------------ *)
(* The wallet changes account while an escrow is loaded                *)
(* ------------------------------------------------------------------ *)
InitSession ==
  /\ InitApp
  /\ chainSnap = Submitted
  /\ walletAccount \in {"c", "u"}
  /\ walletChain = chainSnap.chain
  /\ tasks = [i \in 1 .. MaxTasks |-> NoTask]

NextSession ==
  \/ connect
  \/ \E a \in {"c", "u"} : accountsChanged(a)
  \/ handleEscrowChange("E1")
  \/ approveJob
  \/ \E i \in Slots : Resumed(i)
  \/ ReleaseTimer

SpecSession == InitSession /\ [][NextSession]_vars

(* ------------------------------------------------------------------ *)
(* The wallet changes network while a disputed escrow is loaded        *)
(* ------------------------------------------------------------------ *)
InitNetwork ==
  /\ InitApp
  /\ chainSnap \in {DisputedBsc, DisputedBase}
  /\ walletAccount = "c"
  /\ walletChain = chainSnap.chain
  /\ tasks = [i \in 1 .. OneTask |-> NoTask]

NextNetwork ==
  \/ connect
  \/ \E c \in SupportedChains : walletNetworkChanged(c)
  \/ chainChanged
  \/ handleEscrowChange("E1")
  \/ setUmaEvidence(<<" ">> \o Link8 \o <<" ">>)
  \/ proposeUmaResolution(TRUE)
  \/ \E i \in Slots : Resumed(i)
  \/ ReleaseTimer
  \/ Tick

SpecNetwork == InitNetwork /\ [][NextNetwork]_vars

(* ------------------------------------------------------------------ *)
(* Reads while an action is pending                                    *)
(* ------------------------------------------------------------------ *)
InitReads ==
  /\ InitApp
  /\ chainSnap = Submitted
  /\ walletAccount = "c"
  /\ walletChain = chainSnap.chain
  /\ tasks = [i \in 1 .. MaxTasks |-> NoTask]

NextReads ==
  \/ connect
  \/ walletNetworkChanged(BaseSepoliaId)
  \/ chainChanged
  \/ handleEscrowChange("E1")
  \/ readStateAll
  \/ approveJob
  \/ \E i \in Slots : Resumed(i)
  \/ ReleaseTimer

SpecReads == InitReads /\ [][NextReads]_vars

(* ------------------------------------------------------------------ *)
(* Typing into the amount field                                        *)
(* ------------------------------------------------------------------ *)
InitGates ==
  /\ InitApp
  /\ chainSnap \in {Funding, Deposited, Started}
  /\ walletAccount \in {"c", "f"}
  /\ walletChain = chainSnap.chain
  /\ tasks = [i \in 1 .. OneTask |-> NoTask]

\* the component's render threw: React unmounts the page, which handles no
\* further event
renderThrew == desiredAmount = InvalidDecimalNumber

NextGates ==
  \/ ~renderThrew /\ connect
  \/ ~renderThrew /\ hardDisconnect
  \/ ~renderThrew /\ handleEscrowChange("E1")
  \/ ~renderThrew /\ \E a \in TypedAmounts : setAmount(a)
  \/ ~renderThrew /\ \E i \in Slots : Resumed(i)
  \/ ~renderThrew /\ Tick

SpecGates == InitGates /\ [][NextGates]_vars

(* ------------------------------------------------------------------ *)
(* Choosing the settlement token                                       *)
(* ------------------------------------------------------------------ *)
InitToken ==
  /\ InitApp
  /\ chainSnap \in {Funding, FundingUsdc}
  /\ walletAccount = "c"
  /\ walletChain = chainSnap.chain
  /\ tasks = [i \in 1 .. OneTask |-> NoTask]

NextToken ==
  \/ connect
  \/ handleEscrowChange("E1")
  \/ \E sym \in Symbols : handleSettlementChange(sym)
  \/ setAmount("1")
  \/ approveSpending
  \/ depositFn
  \/ \E c \in SupportedChains : walletNetworkChanged(c)
  \/ chainChanged
  \/ \E i \in Slots : Resumed(i)
  \/ ReleaseTimer

SpecToken == InitToken /\ [][NextToken]_vars

(* ------------------------------------------------------------------ *)
(* A funded escrow under every pair of deposit and start deadline      *)
(* ------------------------------------------------------------------ *)
\* depositDeadline 0 is a deadline the contract has not set
FundedDeadlines ==
  { [Funded EXCEPT !.depositDeadline = d, !.startDeadline = s] :
      d \in 0 .. MaxNow, s \in 1 .. MaxNow }

InitDeadlines ==
  /\ InitApp
  /\ chainSnap \in FundedDeadlines
  /\ walletAccount \in {"c", "F"}
  /\ walletChain = chainSnap.chain
  /\ tasks = [i \in 1 .. OneTask |-> NoTask]

NextDeadlines ==
  \/ connect
  \/ handleEscrowChange("E1")
  \/ readStateAll
  \/ refundNoStart
  \/ startJob
  \/ \E i \in Slots : Resumed(i)
  \/ ReleaseTimer
  \/ Clock

SpecDeadlines == InitDeadlines /\ [][NextDeadlines]_vars

(* ------------------------------------------------------------------ *)
(* Properties                                                          *)
(* ------------------------------------------------------------------ *)
EscrowActions == ActionKinds \ {"createEscrow"}
ClientActions ==
  {"approve", "deposit", "payFee", "refund", "requestRevision", "approveJob"}
FreelancerActions == {"startJob", "submitProof"}

HandedOver(kinds) == {i \in Slots : Handed(tasks[i]) /\ tasks[i].kind \in kinds}

\* C1: at most one mutating action is with the wallet at a time; an action
\* invoked while another has not finished never reaches the wallet
C1_SingleFlight == Cardinality(HandedOver(ActionKinds)) <= 1

\* C2: while the phase shown is Approved (3) or Resolved (6) no gating flag is
\* true and no action button is enabled, and no action is handed to the wallet
\* by a handler that saw phase 3 or 6
C2_FinishedPermitsNothing ==
  /\ isEscrowFinished =>
       /\ \A k \in EscrowActions : ~ButtonEnabled(k)
       /\ ~canClientApprove /\ ~canClientRevise /\ ~canRaiseDispute
       /\ ~canRefundNoStart /\ ~canFreelancerStart /\ ~canFreelancerSubmit
       /\ ~canOracleSettle /\ ~canClientApproveToken /\ ~canClientDeposit
  /\ \A i \in HandedOver(EscrowActions) : tasks[i].inv.escrowState \notin {3, 6}

C2_Witness ==
  /\ connected /\ isEscrowFinished /\ pendingAction = NoAction
  /\ role = "client" /\ status = "state" /\ renderNow = nowT

\* C3: the client's actions are offered to, and handed over for, the client
\* only; the freelancer's for the freelancer only; raiseDispute for one of the
\* two only
C3_RoleExclusive ==
  /\ \A k \in ClientActions : ButtonEnabled(k) => role = "client"
  /\ \A k \in FreelancerActions : ButtonEnabled(k) => role = "freelancer"
  /\ ButtonEnabled("raiseDispute") => role \in {"client", "freelancer"}
  /\ \A i \in HandedOver(ClientActions) : tasks[i].inv.role = "client"
  /\ \A i \in HandedOver(FreelancerActions) : tasks[i].inv.role = "freelancer"
  /\ \A i \in HandedOver({"raiseDispute"}) :
       tasks[i].inv.role \in {"client", "freelancer"}

\* a freelancer looking at submitted work: approveJob and requestRevision are
\* the client's, raiseDispute is open to the freelancer
C3_Witness ==
  /\ connected /\ role = "freelancer" /\ escrowState = 2
  /\ pendingAction = NoAction /\ ButtonEnabled("raiseDispute")

\* C4: with revisions = MAX_REVISIONS in phase Submitted, requestRevision is
\* neither offered nor handed to the wallet
C4_RevisionCapped ==
  /\ escrowState = 2 /\ revisions >= MAX_REVISIONS =>
       ~ButtonEnabled("requestRevision")
  /\ \A i \in HandedOver({"requestRevision"}) :
       tasks[i].inv.revisions < tasks[i].inv.MAX_REVISIONS

\* C5: no dispute settlement (propose, finalize) is handed to the wallet by a
\* handler invoked before disputeStart + DISPUTE_GRACE
C5_NoSettlementInGrace ==
  \A i \in HandedOver({"proposeResolution", "finalizeDispute"}) :
    tasks[i].inv.now >= tasks[i].inv.disputeStart + tasks[i].inv.DISPUTE_GRACE

\* C6: finalize is offered exactly from the assertion's expiration on, and is
\* handed to the wallet only for an existing assertion at or after expiration
C6_FinalizeAfterExpiry ==
  /\ ButtonEnabled("finalizeDispute") =>
       ~emptyAssertion /\ renderNow >= disputeAssertionExpiration
  /\ (address # NoAddress /\ umaPanelShown /\ ~emptyAssertion
        /\ pendingAction = NoAction /\ renderNow >= disputeAssertionExpiration)
       => ButtonEnabled("finalizeDispute")
  /\ \A i \in HandedOver({"finalizeDispute"}) :
       /\ tasks[i].inv.disputeAssertionId # ZeroAssertion
       /\ tasks[i].inv.now >= tasks[i].inv.disputeAssertionExpiration

\* finalize handed to the wallet at the second of expiration
C6_Witness ==
  \E i \in HandedOver({"finalizeDispute"}) :
    /\ tasks[i].inv.disputeAssertionExpiration > 0
    /\ tasks[i].inv.now = tasks[i].inv.disputeAssertionExpiration

\* C7: on the arbiter-settled network (BNB testnet) a connected arbiter whose
\* settlement gate is true has a settlement action to submit
C7_ArbiterCanSettle ==
  (/\ connected /\ role = "oracle" /\ currentChain = BscTestnetId
   /\ pendingAction = NoAction /\ canOracleSettle)
    => \E k \in ActionKinds \cup {"settleDispute"} : ButtonEnabled(k)

\* C8: propose is offered only while the assertion id is zero, and handed to
\* the wallet only by a handler that saw a zero assertion id and evidence that
\* is not blank
C8_ProposeOnce ==
  /\ ButtonEnabled("proposeResolution") => disputeAssertionId = ZeroAssertion
  /\ \A i \in HandedOver({"proposeResolution"}) :
       /\ tasks[i].inv.disputeAssertionId = ZeroAssertion
       /\ trim(tasks[i].inv.evidence) # <<>>

C8_Witness ==
  \E i \in HandedOver({"proposeResolution"}) : tasks[i].pc = "wallet"

\* C9: a pending action is eventually cleared
C9_PendingCleared == (pendingAction # NoAction) ~> (pendingAction = NoAction)

\* C10: every action with the wallet passed the network check: the wallet was
\* on the target network, or switched to it
C10_NetworkChecked ==
  \A i \in HandedOver(ActionKinds) : tasks[i].ens \in {"already", "switched"}

\* program points of a refresh whose reads have not all answered
RefreshPcs == {"r_reads", "r_bal", "r_dec", "r_allow"}

\* the transaction of t is confirmed and the refresh that follows it has not
\* completed: a handler between its confirmation and its return, or the
\* refresh createNewEscrow deferred, once started
AwaitingRefresh(t) ==
  /\ t # NoTask
  /\ \/ t.kind \in ActionKinds /\ t.pc \in {"delay"} \cup RefreshPcs
     \/ t.kind = "createdRefresh" /\ t.pc \in RefreshPcs

\* C11: pendingAction is set back to null only when no confirmed action is
\* still waiting for its refresh to complete
C11_RefreshBeforeRelease ==
  [][(pendingAction # NoAction /\ pendingAction' = NoAction)
       => \A i \in Slots : ~AwaitingRefresh(tasks[i])]_vars

\* the statuses that report an error
ErrorStatuses == {"failed", "actionFailed"}

\* C12: a submission that fails (the wallet rejects it, the receipt reports a
\* revert) leaves role and snapshot alone, puts the error in the status and
\* schedules the release of pendingAction; a handler whose transaction
\* reverted returns with the error in the status
C12_FailureSurfaced ==
  [][\A i \in Slots :
       /\ (WalletReject(i) \/ Receipt(i, "reverted")) =>
            /\ status' \in ErrorStatuses
            /\ timers' = timers + 1
            /\ UNCHANGED <<role, snapVars>>
       /\ (/\ tasks[i] # NoTask /\ tasks[i].kind \in ActionKinds
           /\ tasks[i].mined = "reverted" /\ tasks'[i] = NoTask) =>
            status' \in ErrorStatuses]_vars

\* the stored value of the field a refresh reads as f
StoredField(f) ==
  CASE f = "client" -> escrowClient
    [] f = "freelancer" -> escrowFreelancer
    [] f = "oracle" -> escrowOracle
    [] f = "state" -> escrowState
    [] f = "depositAmount" -> depositAmount
    [] f = "settlementToken" -> escrowToken
    [] f = "FEE" -> FEE
    [] f = "depositDeadline" -> depositDeadline
    [] f = "startDeadline" -> startDeadline
    [] f = "completionDeadline" -> completionDeadline
    [] f = "revisions" -> revisions
    [] f = "MAX_REVISIONS" -> MAX_REVISIONS
    [] f = "disputeStart" -> disputeStart
    [] f = "DISPUTE_GRACE" -> DISPUTE_GRACE
    [] f = "disputeAssertionId" -> disputeAssertionId
    [] f = "disputeAssertionExpiration" -> disputeAssertionExpiration
    [] f = "accruedFees" -> accruedFees

\* a refresh has stored the participants it read from the contract
SnapshotLoaded == escrow # NoEscrow /\ escrowClient = chainSnap.client

\* C13: a stored snapshot that holds values read from the contract holds the
\* contract's value in every field, never a substituted default next to them
C13_NoMixedSnapshot ==
  SnapshotLoaded => \A f \in ReadFields : StoredField(f) = chainSnap[f]

\* C14: a refresh that ends in a read failure while a snapshot is loaded and
\* the role resolved keeps snapshot and role as they were
C14_FailedRefreshKeeps ==
  [][\A i \in Slots :
       (/\ SnapshotLoaded
        /\ role \in {"client", "freelancer", "oracle"}
        /\ RefreshReads(i)
        /\ status' = "wrongChain")
         => UNCHANGED <<role, snapVars>>]_vars

\* the amount approveSpending and depositFn hand to the wallet: the typed
\* amount at the decimals readDecimals returned
amountBn(t) == parseUnits(t.inv.amount, readDecimals(t.chain, TRUE))

\* C15: an approval or a deposit is with the wallet only when its handler ran
\* for the client in Funding (0) with the deposit deadline not elapsed, and a
\* deposit only when the allowance read from the token covers the amount
C15_FundingHandOver ==
  \A i \in HandedOver({"approve", "deposit"}) :
    LET t == tasks[i] IN
      /\ t.inv.escrowState = 0
      /\ t.inv.role = "client"
      /\ ~(t.inv.depositDeadline > 0 /\ t.inv.renderNow > t.inv.depositDeadline)
      /\ t.kind = "deposit" => QtyGeq(t.inv.tokenAllowance, amountBn(t))

\* the client's page shows an escrow in Funding (0) with nothing deposited,
\* before the start deadline
FundingNoDeposit ==
  /\ role = "client"
  /\ escrowState = 0
  /\ depositAmount = 0
  /\ renderNow < startDeadline

\* C16: for the client in Funding with no deposit and before the start
\* deadline the approval is the only action permitted: its gate is true, and
\* the gate and the button of every other action are off
C16_OnlyApproveToken ==
  FundingNoDeposit =>
    /\ canClientApproveToken
    /\ ~canClientDeposit /\ ~canRefundNoStart
    /\ ~canClientApprove /\ ~canClientRevise /\ ~canRaiseDispute
    /\ ~canFreelancerStart /\ ~canFreelancerSubmit /\ ~canOracleSettle
    /\ \A kind \in EscrowActions \ {"approve"} : ~ButtonEnabled(kind)

\* C17: in Funding (0) with a deposit and the fee not yet paid in full, the
\* fee payment is the only action permitted to the client (approval, deposit
\* and refund are off) and the freelancer may not start; a fee payment is with
\* the wallet only when its handler saw a deposit
C17_OnlyPayFee ==
  /\ (/\ role \in {"client", "freelancer"}
      /\ escrowState = 0 /\ depositAmount > 0 /\ accruedFees < FEE) =>
       /\ ~canClientApproveToken /\ ~canClientDeposit /\ ~canRefundNoStart
       /\ ~canFreelancerStart
       /\ \A kind \in EscrowActions \ {"payFee"} : ~ButtonEnabled(kind)
  /\ \A i \in HandedOver({"payFee"}) : tasks[i].inv.depositAmount > 0

\* the handlers of the given kind that passed their checks and have not returned
Accepted(kind) == {i \in Slots : tasks[i] # NoTask /\ tasks[i].kind = kind}

\* C18: the refund gate is true, and refundNoStart lets a click through, only
\* for the client, in Funding (0), after the start deadline, with a deposit
\* and the fee paid in full
C18_RefundGate ==
  /\ canRefundNoStart =>
       /\ escrowState = 0 /\ renderNow > startDeadline
       /\ depositAmount > 0 /\ accruedFees >= FEE /\ FEE > 0
  /\ \A i \in Accepted("refund") :
       LET inv == tasks[i].inv IN
         /\ inv.role = "client"
         /\ inv.escrowState = 0
         /\ inv.renderNow > inv.startDeadline /\ inv.now > inv.startDeadline
         /\ inv.depositAmount > 0 /\ inv.clientPaidFee

\* a refund is with the wallet
C18_Witness == HandedOver({"refund"}) # {}

C21_DisputeGate ==
  /\ canRaiseDispute => escrowState \in {2, 4}
  /\ ButtonEnabled("raiseDispute") =>
       role \in {"client", "freelancer"} /\ escrowState \in {2, 4}
  /\ \A i \in Accepted("raiseDispute") :
       /\ tasks[i].inv.role \in {"client", "freelancer"}
       /\ tasks[i].inv.escrowState \in {2, 4}

\* the freelancer's dispute over a revision request is with the wallet
C21_Witness ==
  \E i \in HandedOver({"raiseDispute"}) :
    tasks[i].inv.role = "freelancer" /\ tasks[i].inv.escrowState = 4

\* a reference the validator accepts and leaves as it is
IsNormalizedCid(ref) == ref # NullCid /\ normalizeAndValidateCid(ref) = ref

\* C22: the proof of a submitProof and the evidence of a proposal that are
\* with the wallet are outputs of normalizeAndValidateCid
C22_ValidatedReferences ==
  /\ \A i \in HandedOver({"submitProof"}) : IsNormalizedCid(tasks[i].arg)
  /\ \A i \in HandedOver({"proposeResolution"}) : IsNormalizedCid(tasks[i].arg[2])

\* the participants the contract reports
chainParticipants == <<chainSnap.client, chainSnap.freelancer, chainSnap.oracle>>

\* the role refreshRoleAndState resolves for caller acct
resolveRole(acct) == roleOf(acct, chainParticipants[1], chainParticipants[2], chainParticipants[3])

\* C23: role resolution compares addresses without regard to case: the caller
\* that is the client, the freelancer or the oracle gets that role, a caller
\* that is none of them is unknown, and with no caller at all (disconnected)
\* the role held for a loaded escrow is other than unknown
C23_RoleResolution ==
  /\ \A acct \in Accounts :
       /\ lower(acct) = lower(chainParticipants[1]) => resolveRole(acct) = "client"
       /\ lower(acct) = lower(chainParticipants[2]) => resolveRole(acct) = "freelancer"
       /\ lower(acct) = lower(chainParticipants[3]) => resolveRole(acct) = "oracle"
       /\ (\A k \in 1 .. 3 : lower(acct) # lower(chainParticipants[k])) =>
            resolveRole(acct) = "unknown"
  /\ (address = NoAddress /\ escrow # NoEscrow) => role # "unknown"

\* C24: a handler that passed its role check did so with the role resolved
\* from the participants of the escrow and the wallet address of the moment
\* of the check; a role computed for an earlier address is never used
C24_RoleInUse ==
  \A i \in Slots :
    (/\ tasks[i] # NoTask
     /\ tasks[i].kind \in ClientActions \cup FreelancerActions \cup {"raiseDispute"}) =>
      tasks[i].inv.role = resolveRole(tasks[i].acct)

\* C25: the UMA variant is applied to a loaded disputed escrow exactly when
\* the escrow lives on Base Sepolia, whatever network the wallet moves to, and
\* UMA actions reach the wallet only for an escrow on Base Sepolia
C25_VariantFixed ==
  /\ (escrow # NoEscrow /\ escrowState = 5) =>
       (isBaseSepolia <=> chainSnap.chain = BaseSepoliaId)
  /\ \A i \in HandedOver({"proposeResolution", "finalizeDispute"}) :
       chainSnap.chain = BaseSepoliaId

\* C26: pendingAction names the mutating action that is with the wallet,
\* awaiting confirmation or in its closing refresh, there is at most one such
\* action, and pendingAction is null when there is none
C26_PendingNamesAction ==
  /\ \A i \in HandedOver(ActionKinds) : pendingAction = tasks[i].kind
  /\ Cardinality(HandedOver(ActionKinds)) <= 1
  /\ pendingAction # NoAction =>
       \E i \in HandedOver(ActionKinds) : tasks[i].kind = pendingAction

\* C27: whatever pendingAction is, the Refresh button starts a refresh when an
\* escrow is loaded and no manual refresh is running, a refresh in progress
\* can take its next step, and the chain-id poll reports the wallet's network
C27_ReadsNotBlocked ==
  /\ (/\ address # NoAddress /\ escrow # NoEscrow /\ HasFreeSlot
      /\ \A i \in Slots : tasks[i].kind # "readState") => ENABLED readStateAll
  /\ \A i \in Slots :
       (tasks[i] # NoTask /\ tasks[i].kind \in {"refresh", "readState"}) =>
         ENABLED Resumed(i)
  /\ (provider /\ chainId # walletChain) => ENABLED chainChanged

\* a manual refresh is at its last read while approveJob is with the wallet
C27_Witness ==
  /\ pendingAction = "approveJob"
  /\ \E i \in Slots : tasks[i].kind = "approveJob" /\ tasks[i].pc = "wallet"
  /\ \E i \in Slots : tasks[i].kind = "readState" /\ tasks[i].pc = "r_allow"

\* C28: in every state of the page the gating flags are definite booleans:
\* computing them never throws, whatever the snapshot, the role, the typed
\* amount and the time, the zero snapshot of a disconnected caller included
C28_GatesTotal ==
  /\ ~renderThrew
  /\ {canClientApproveToken, canClientDeposit, canRefundNoStart, canClientApprove,
      canClientRevise, canRaiseDispute, canFreelancerStart, canFreelancerSubmit,
      canOracleSettle, clientHasActions, freelancerHasActions} \subseteq BOOLEAN

\* C29: on every network a refresh obtains the precision by reading the
\* token's decimals(): a read that answers gives the token's value, and a
\* read that fails gives no value on any network, so that 18 is stored
C29_PrecisionRead ==
  \A i \in Slots :
    (tasks[i] # NoTask /\ tasks[i].pc = "r_dec" /\ tasks[i].chain = chainSnap.chain) =>
      /\ readDecimals(tasks[i].chain, TRUE) = chainSnap.decimals
      /\ readDecimals(tasks[i].chain, FALSE) = NoDecimals

\* lines 2009-2017: the "Fee paid" line of the escrow panel
panelFeePaidDisplay ==
  IF escrow = NoEscrow \/ address = NoAddress
     \/ role \notin {"client", "freelancer", "oracle"}
  THEN "-"
  ELSE IF escrowBnbBalance >= FEE /\ FEE > 0 THEN "Yes" ELSE "No"

\* C30: the fee-paid display and the flag clientPaidFee that gates payFee,
\* startJob and refundNoStart agree: both say paid or both say unpaid
C30_FeeChecksAgree ==
  /\ panelFeePaidDisplay = "Yes" => clientPaidFee
  /\ panelFeePaidDisplay = "No" => ~clientPaidFee

\* C31: while the token of the loaded escrow is recognized as the USDT or USDC
\* of the current network, the selected settlement token is that one, and an
\* approval or deposit invoked then goes to the escrow's own token
C31_TokenLocked ==
  /\ escrowTokenSymbol # NoSymbol => settlement = escrowTokenSymbol
  /\ \A i \in Slots :
       (/\ tasks[i] # NoTask /\ tasks[i].kind \in {"approve", "deposit"}
        /\ tokenSymbol(tasks[i].inv.escrowToken, tasks[i].chain) # NoSymbol) =>
         lower(cfgToken(tasks[i].chain, tasks[i].inv.settlement)) =
           lower(tasks[i].inv.escrowToken)

\* a deposit into an escrow settled in USDC is with the wallet, the default
\* selection having been USDT
C31_Witness ==
  /\ escrowTokenSymbol = "USDC"
  /\ \E i \in HandedOver({"deposit"}) : tasks[i].inv.escrowToken = "USDC97"

\* C32: a refresh for a connected wallet that reads client, freelancer and
\* oracle all as the zero address (the escrow is not on the network read)
\* reports the wrong chain, sets role to unknown and leaves the stored
\* snapshot as it was; any other refresh stores participants it read
C32_WrongChain ==
  [][\A i \in Slots :
       (RefreshReads(i) /\ tasks[i].acct # NoAddress) =>
         /\ tasks[i].chain # chainSnap.chain =>
              (status' = "wrongChain" /\ role' = "unknown" /\ UNCHANGED snapVars)
         /\ \/ status' = "wrongChain" /\ role' = "unknown" /\ UNCHANGED snapVars
            \/ ~(/\ escrowClient' = ZeroAddress
                 /\ escrowFreelancer' = ZeroAddress
                 /\ escrowOracle' = ZeroAddress)]_vars

\* the wrong chain was reported and the disputed snapshot loaded before is
\* still stored
C32_Witness ==
  /\ status = "wrongChain" /\ role = "unknown"
  /\ escrowState = 5 /\ escrowClient = chainSnap.client

\* C33: on Base Sepolia, with a disputed escrow without assertion displayed,
\* evidence entered and no action pending, the propose buttons are enabled in
\* every render made at or after disputeStart + DISPUTE_GRACE
C33_ProposeOpens ==
  (/\ address # NoAddress /\ umaPanelShown /\ emptyAssertion
   /\ disputeStart > 0 /\ renderNow >= disputeStart + DISPUTE_GRACE
   /\ trim(umaEvidence) # <<>> /\ pendingAction = NoAction) =>
    ButtonEnabled("proposeResolution")

\* C34: whenever the checks of refundNoStart pass for the connected client, or
\* those of startJob for the connected freelancer, and no action is pending,
\* the button of that action is rendered and enabled
C34_GateHasButton ==
  /\ (connected /\ role = "client" /\ canRefundNoStart /\ pendingAction = NoAction)
       => ButtonEnabled("refund")
  /\ (connected /\ role = "freelancer" /\ canFreelancerStart
      /\ pendingAction = NoAction) => ButtonEnabled("startJob")

\* C35: startJob and refundNoStart are never both permitted; for a funded
\* escrow in state Funding with startDeadline > 0, at now = startDeadline
\* startJob is permitted and refundNoStart is not, and at now = startDeadline + 1
\* refundNoStart is permitted and startJob is not
C35_StartXorRefund ==
  /\ ~(canFreelancerStart /\ canRefundNoStart)
  /\ (escrowState = 0 /\ clientHasDeposit /\ clientPaidFee /\ startDeadline > 0)
       => /\ renderNow = startDeadline
               => (canFreelancerStart /\ ~canRefundNoStart)
          /\ renderNow = startDeadline + 1
               => (canRefundNoStart /\ ~canFreelancerStart)

\* the refund gate open one second after the start deadline of a loaded,
\* funded escrow
C35_Witness ==
  /\ connected
  /\ escrow # NoEscrow
  /\ escrowState = 0
  /\ clientHasDeposit
  /\ clientPaidFee
  /\ startDeadline > 0
  /\ renderNow = startDeadline + 1
  /\ canRefundNoStart
  /\ ~canFreelancerStart

\* C36: once every refresh and action in flight has completed, the stored role
\* is the one read for the escrow selected and the wallet address connected
\* now: a refresh started for an earlier address that finishes later does
\* not overwrite it
C36_LatestRefreshWins ==
  (/\ \A i \in Slots : tasks[i] = NoTask
   /\ address # NoAddress
   /\ escrow # NoEscrow
   /\ role # "unknown") => role = resolveRole(address)

\* C37: while no wallet is connected and no escrow is selected (the state
\* hardDisconnect leaves), the role is unset or unknown and the escrow state
\* of the snapshot is cleared, whatever refresh or action was in flight at
\* the moment of the disconnect
C37_DisconnectedStaysCleared ==
  (address = NoAddress /\ escrow = NoEscrow) =>
    (role \in {"unset", "unknown"} /\ escrowState = NoState)

\* C38: no mutating action is handed to the wallet while no wallet address is
\* connected, or (createEscrow excepted) while no escrow address is loaded
C38_NoHandoverDisconnected ==
  [][\A i \in Slots :
       (/\ tasks'[i] # NoTask
        /\ tasks'[i].kind \in ActionKinds
        /\ tasks'[i].pc = "wallet"
        /\ (tasks[i] = NoTask \/ tasks[i].pc # "wallet")) =>
         /\ address # NoAddress
         /\ (tasks'[i].kind = "createEscrow" \/ escrow # NoEscrow)]_vars

\* C39: whenever the guidance line says that no actions are possible (deposit
\* deadline exceeded, or escrow completed), no button of an escrow action is
\* rendered enabled, for every snapshot including depositDeadline = 0
C39_GuidanceAgrees ==
  nextAction \in {"Deposit deadline exceeded. Escrow inactive - no actions possible.",
                  "This escrow has been completed. No further actions."}
    => \A kind \in EscrowActions : ~ButtonEnabled(kind)

\* C40: normalizeAndValidateCid is idempotent on the inputs it accepts, so the
\* reference of a submitProof that is with the wallet, validated twice, is the
\* one a single validation of some typed input gives; a rejected input yields
\* null and no submission carries it
C40_ValidateTwice ==
  /\ \A x \in CidInputs :
       normalizeAndValidateCid(x) # NullCid =>
         normalizeAndValidateCid(normalizeAndValidateCid(x)) = normalizeAndValidateCid(x)
  /\ \A i \in HandedOver({"submitProof"}) :
       /\ tasks[i].arg # NullCid
       /\ \E x \in CidInputs :
            normalizeAndValidateCid(x) # NullCid /\ tasks[i].arg = normalizeAndValidateCid(x)

\* a proof typed with leading blank and prefix is with the wallet as the
\* prefixed reference
C40_Witness ==
  \E i \in HandedOver({"submitProof"}) :
    /\ tasks[i].pc = "wallet"
    /\ tasks[i].arg = IpfsPrefix \o Rep("Z", CidLen)

====
